---- MODULE Spec2Model ----
(***************************************************************************)
(* State-machine model of scan_android_device.py: calculate_md5,           *)
(* scan_directory (the os.walk loop, the per-file try/except, the CSV      *)
(* writer) and the try/except of main around the scan.                     *)
(*                                                                         *)
(* The file system and the output device are the environment: the kind of  *)
(* every directory entry is fixed when the scan starts, while a size       *)
(* query, an open, a chunk read or a CSV write may fail whenever it is     *)
(* attempted.  Console output (print) is taken to succeed.                 *)
(***************************************************************************)
EXTENDS Integers, Sequences, FiniteSets, TLC

\* ------------------------------------------------------------------ bounds
NumDirs == 3
NumFiles == 3
MaxChunks == 2
MaxFaults == 3

\* The chunk size of calculate_md5's read loop.
ChunkSize == 8192

\* ------------------------------------------------------------- file system
Dirs == 1..NumDirs
Files == 1..NumFiles
Root == 1

\* The tree: directory d > 1 lies in directory d \div 2, file f in FileDir(f).
Parent(d) == d \div 2
FileDir(f) == ((f - 1) % NumDirs) + 1

DirKinds == {"dir", "nolist", "symlink"}
FileKinds == {"regular", "special"}

\* The length of file f in chunks (file 1 is empty when NumFiles allows).
Chunks(f) == (f - 1) % (MaxChunks + 1)

RECURSIVE DirPath(_)
DirPath(d) == IF d = Root THEN "/mnt" ELSE DirPath(Parent(d)) \o "/d" \o ToString(d)

\* os.path.join(root, filename)
PathOf(f) == DirPath(FileDir(f)) \o "/f" \o ToString(f)

\* str(os.path.getsize(file_path)) as csv.writer writes it
SizeStr(f, k) == IF k = "regular" THEN ToString(Chunks(f) * ChunkSize) ELSE "0"

\* hashlib.md5().hexdigest() after n chunks of ChunkSize zero bytes were fed
HexDigest(n) ==
    CASE n = 0 -> "d41d8cd98f00b204e9800998ecf8427e"
      [] n = 1 -> "0829f71740aab1ab98b33eae21dee122"
      [] n = 2 -> "ce338fe6899778aacfc28414f2d9498b"
      [] n = 3 -> "91ff0dac5df86e798bfef5e573536b08"
      [] n = 4 -> "bb7df04e1b0a2570657527a7e108ae23"
      [] OTHER -> "ab893875d697a3145af5eed5309bee26"

None == "None"
NA == "N/A"
Header == <<"File Path", "MD5 Hash", "File Size (bytes)", "Status">>
StatusSuccess == "Success"
StatusReadError == "Error - Could not read file"
StatusOther(reason) == "Error - " \o reason

\* str(e) of the exceptions the environment raises
ENOENT == "[Errno 2] No such file or directory"
EACCES == "[Errno 13] Permission denied"
ENOSPC == "[Errno 28] No space left on device"
Unexpected == "unexpected"

\* a test that takes every result of calculate_md5 for a digest
TruthyAlways(v) == TRUE

\* Python truthiness of calculate_md5's result in `if md5_hash:`
Truthy(v) == v \notin {None, ""}

\* ------------------------------------------------------------------- state
VARIABLES
    dirKind,      \* file system: kind of each directory entry
    fileKind,     \* file system: kind of each non-directory entry
    pc,           \* position of the process
    stack,        \* os.walk's stack of directories still to list
    files,        \* the `files` list of the current os.walk triple, not yet iterated
    file_path,    \* scan_directory: the entry being processed (0: none)
    file_size,    \* scan_directory: file_size, as written
    md5_hash,     \* scan_directory: md5_hash (None until calculate_md5 returns)
    fed,          \* calculate_md5: chunks fed to the digest so far
    exc,          \* str(e) of the exception the except clause caught
    file_count,   \* scan_directory: file_count
    error_count,  \* scan_directory: error_count
    report,       \* the CSV file: rows written so far, header first
    summary,      \* the printed summary: <<>> or <<file_count, error_count>>
    exitcode,     \* exit status of the process (-1 while it runs)
    fate,         \* history: what the environment did to each file
    yielded,      \* history: entries the for loop took, in order
    hashed,       \* history: entries calculate_md5 was called on
    sinkFailed,   \* history: number of failed operations on the CSV file
    faults        \* history: number of failures the environment raised

fs == <<dirKind, fileKind>>
walker == <<stack, files>>
locals == <<file_path, file_size, md5_hash, fed, exc>>
counters == <<file_count, error_count>>
outcome == <<summary, exitcode>>
history == <<fate, yielded, hashed, sinkFailed, faults>>
vars == <<fs, pc, walker, locals, counters, report, outcome, history>>

MayFail == faults < MaxFaults

\* ---------------------------------------------------------------- os.walk
\* entries of directory d for which entry.is_dir() holds, in listing order
SubDirs(d) == { c \in Dirs : c # Root /\ Parent(c) = d }
\* the other entries of d: the `files` of the triple
NonDirs(d) == { f \in Files : FileDir(f) = d }

RECURSIVE Ascending(_)
Ascending(S) ==
    IF S = {} THEN <<>>
    ELSE LET m == CHOOSE x \in S : \A y \in S : x <= y
         IN <<m>> \o Ascending(S \ {m})

RECURSIVE Descending(_)
Descending(S) ==
    IF S = {} THEN <<>>
    ELSE LET m == CHOOSE x \in S : \A y \in S : x >= y
         IN <<m>> \o Descending(S \ {m})

\* `if followlinks or not islink(new_path): stack.append(new_path)`
Descend(kinds, d) == { c \in SubDirs(d) : kinds[c] # "symlink" }

Init ==
    /\ dirKind \in [Dirs -> DirKinds]
    /\ dirKind[Root] # "symlink"
    /\ fileKind \in [Files -> FileKinds]
    /\ pc = "open"
    /\ stack = <<>>
    /\ files = <<>>
    /\ file_path = 0
    /\ file_size = NA
    /\ md5_hash = None
    /\ fed = 0
    /\ exc = ""
    /\ file_count = 0
    /\ error_count = 0
    /\ report = <<>>
    /\ summary = <<>>
    /\ exitcode = -1
    /\ fate = [f \in Files |-> "untouched"]
    /\ yielded = <<>>
    /\ hashed = {}
    /\ sinkFailed = 0
    /\ faults = 0

\* main's `except Exception`: print "Fatal error", sys.exit(1)
Fatal ==
    /\ pc' = "fatal"
    /\ exitcode' = 1
    /\ UNCHANGED summary

\* scan_directory lines 48-58: open the CSV file and write the header
OpenOutput ==
    /\ pc = "open"
    /\ \/ /\ report' = <<Header>>
          /\ stack' = <<Root>>
          /\ pc' = "walk"
          /\ UNCHANGED <<outcome, sinkFailed, faults>>
       \/ /\ MayFail
          /\ Fatal
          /\ sinkFailed' = sinkFailed + 1
          /\ faults' = faults + 1
          /\ UNCHANGED <<report, stack>>
    /\ UNCHANGED <<fs, files, locals, counters, fate, yielded, hashed>>

\* a walk that a listing error ends (as an onerror handler that raises would)
WalkNextHalts ==
    /\ pc = "walk"
    /\ files = <<>>
    /\ stack # <<>>
    /\ LET top == stack[Len(stack)]
           rest == SubSeq(stack, 1, Len(stack) - 1)
       IN IF dirKind[top] = "nolist"
          THEN /\ stack' = <<>>
               /\ files' = <<>>
          ELSE /\ stack' = rest \o Descending(Descend(dirKind, top))
               /\ files' = Ascending(NonDirs(top))
    /\ UNCHANGED <<fs, pc, locals, counters, report, outcome, history>>

\* os.walk: pop the next directory, list it (a listing error skips it),
\* yield its files and push its real subdirectories
WalkNext ==
    /\ pc = "walk"
    /\ files = <<>>
    /\ stack # <<>>
    /\ LET top == stack[Len(stack)]
           rest == SubSeq(stack, 1, Len(stack) - 1)
       IN IF dirKind[top] = "nolist"
          THEN /\ stack' = rest
               /\ files' = <<>>
          ELSE /\ stack' = rest \o Descending(Descend(dirKind, top))
               /\ files' = Ascending(NonDirs(top))
    /\ UNCHANGED <<fs, pc, locals, counters, report, outcome, history>>

\* a size query whose failure is swallowed, so that hashing goes on
GetSizeSwallows ==
    /\ pc = "walk"
    /\ files # <<>>
    /\ LET f == Head(files)
       IN /\ file_path' = f
          /\ files' = Tail(files)
          /\ yielded' = Append(yielded, f)
          /\ md5_hash' = None
          /\ fed' = 0
          /\ \/ /\ file_size' = SizeStr(f, fileKind[f])
                /\ pc' = "hash"
                /\ UNCHANGED <<exc, fate, faults>>
             \/ /\ MayFail
                /\ fate' = [fate EXCEPT ![f] = "gone_at_size"]
                /\ exc' = ENOENT
                /\ faults' = faults + 1
                /\ pc' = "hash"
                /\ file_size' = NA
    /\ UNCHANGED <<fs, stack, counters, report, outcome, hashed, sinkFailed>>

\* lines 61-66: take the next filename, join it, query its size
GetSize ==
    /\ pc = "walk"
    /\ files # <<>>
    /\ LET f == Head(files)
       IN /\ file_path' = f
          /\ files' = Tail(files)
          /\ yielded' = Append(yielded, f)
          /\ md5_hash' = None
          /\ fed' = 0
          /\ \/ /\ file_size' = SizeStr(f, fileKind[f])
                /\ pc' = "hash"
                /\ UNCHANGED <<exc, fate, faults>>
             \/ /\ MayFail
                /\ \E r \in {"gone", "denied"} :
                      /\ exc' = IF r = "gone" THEN ENOENT ELSE EACCES
                      /\ fate' = [fate EXCEPT ![f] = r \o "_at_size"]
                /\ faults' = faults + 1
                /\ pc' = "except"
                /\ UNCHANGED file_size
    /\ UNCHANGED <<fs, stack, counters, report, outcome, hashed, sinkFailed>>

\* a hasher that returns the digest of the chunks read before the failure
ReadFailurePartial(n) == HexDigest(n)

\* what calculate_md5 returns when open() or read() raises OSError
ReadFailure(n) == None

\* calculate_md5 lines 27-29 (called from line 69): new digest, open the file
HashOpen ==
    /\ pc = "hash"
    /\ hashed' = hashed \cup {file_path}
    /\ fed' = 0
    /\ \/ /\ pc' = "read"
          /\ UNCHANGED <<md5_hash, exc, fate, faults>>
       \/ /\ MayFail
          /\ \E r \in {"gone", "denied"} :
                fate' = [fate EXCEPT ![file_path] = r \o "_at_open"]
          /\ md5_hash' = ReadFailure(0)
          /\ faults' = faults + 1
          /\ pc' = "classify"
          /\ UNCHANGED exc
       \/ /\ MayFail
          /\ fate' = [fate EXCEPT ![file_path] = "raised"]
          /\ exc' = Unexpected
          /\ faults' = faults + 1
          /\ pc' = "except"
          /\ UNCHANGED md5_hash
    /\ UNCHANGED <<fs, walker, file_path, file_size, counters, report, outcome,
                   yielded, sinkFailed>>

\* calculate_md5 lines 31-36: read the next chunk and feed it, or finish
HashRead ==
    /\ pc = "read"
    /\ \/ /\ fed < Chunks(file_path)
          /\ fed' = fed + 1
          /\ UNCHANGED <<pc, md5_hash, fate, faults>>
       \/ /\ fed < Chunks(file_path)
          /\ MayFail
          /\ fate' = [fate EXCEPT ![file_path] = "failed_at_read"]
          /\ md5_hash' = ReadFailure(fed)
          /\ faults' = faults + 1
          /\ pc' = "classify"
          /\ UNCHANGED fed
       \/ /\ fed = Chunks(file_path)
          /\ fate' = [fate EXCEPT ![file_path] = "read"]
          /\ md5_hash' = HexDigest(fed)
          /\ pc' = "classify"
          /\ UNCHANGED <<fed, faults>>
    /\ UNCHANGED <<fs, walker, file_path, file_size, exc, counters, report, outcome,
                   yielded, hashed, sinkFailed>>

\* the row of line 82
Row(path, digest, size, status) == <<PathOf(path), digest, size, status>>
\* the row of line 87
ErrorRow(path, reason) == <<PathOf(path), NA, NA, StatusOther(reason)>>

\* lines 71-82: classify the hasher's result, count it, write the row
Record ==
    /\ pc = "classify"
    /\ LET ok == Truthy(md5_hash)
           status == IF ok THEN StatusSuccess ELSE StatusReadError
           digest == IF ok THEN md5_hash ELSE NA
       IN /\ file_count' = IF ok THEN file_count + 1 ELSE file_count
          /\ error_count' = IF ok THEN error_count ELSE error_count + 1
          /\ md5_hash' = digest
          /\ \/ /\ report' = Append(report, Row(file_path, digest, file_size, status))
                /\ pc' = "walk"
                /\ UNCHANGED <<exc, sinkFailed, faults>>
             \/ /\ MayFail
                /\ exc' = ENOSPC
                /\ sinkFailed' = sinkFailed + 1
                /\ faults' = faults + 1
                /\ pc' = "except"
                /\ UNCHANGED report
    /\ UNCHANGED <<fs, walker, file_path, file_size, fed, outcome, fate, yielded, hashed>>

\* an except clause that re-raises: the per-file error ends the run
ExceptAborts ==
    /\ pc = "except"
    /\ error_count' = error_count + 1
    /\ Fatal
    /\ UNCHANGED <<fs, walker, locals, file_count, report, history>>

\* an except clause that writes the row but forgets to count the error
ExceptNoCount ==
    /\ pc = "except"
    /\ report' = Append(report, ErrorRow(file_path, exc))
    /\ pc' = "walk"
    /\ UNCHANGED <<fs, walker, locals, counters, outcome, history>>

\* lines 84-87: the per-file except clause; an exception of its own
\* writerow is not caught in scan_directory and reaches main
Except ==
    /\ pc = "except"
    /\ error_count' = error_count + 1
    /\ \/ /\ report' = Append(report, ErrorRow(file_path, exc))
          /\ pc' = "walk"
          /\ UNCHANGED <<outcome, sinkFailed, faults>>
       \/ /\ MayFail
          /\ Fatal
          /\ sinkFailed' = sinkFailed + 1
          /\ faults' = faults + 1
          /\ UNCHANGED report
    /\ UNCHANGED <<fs, walker, locals, file_count, fate, yielded, hashed>>

\* lines 88-93 and main's return: close the CSV file, print the summary
Finish ==
    /\ pc = "walk"
    /\ files = <<>>
    /\ stack = <<>>
    /\ \/ /\ summary' = <<file_count, error_count>>
          /\ pc' = "done"
          /\ exitcode' = 0
          /\ UNCHANGED <<sinkFailed, faults>>
       \/ /\ MayFail
          /\ Fatal
          /\ sinkFailed' = sinkFailed + 1
          /\ faults' = faults + 1
    /\ UNCHANGED <<fs, walker, locals, counters, report, fate, yielded, hashed>>

Scanning == pc \in {"open", "walk", "hash", "read", "classify", "except"}

\* an interrupt after which the summary is still printed (as from a finally)
InterruptPrintsSummary ==
    /\ Scanning
    /\ pc' = "interrupted"
    /\ exitcode' = 1
    /\ summary' = <<file_count, error_count>>
    /\ UNCHANGED <<fs, walker, locals, counters, report, history>>

\* main lines 219-221: KeyboardInterrupt is no Exception, so nothing in
\* scan_directory catches it; the with block closes the file on the way out
Interrupt ==
    /\ Scanning
    /\ pc' = "interrupted"
    /\ exitcode' = 1
    /\ UNCHANGED <<fs, walker, locals, counters, report, summary, history>>

Next ==
    \/ OpenOutput
    \/ WalkNext
    \/ GetSize
    \/ HashOpen
    \/ HashRead
    \/ Record
    \/ Except
    \/ Finish
    \/ Interrupt

Spec == Init /\ [][Next]_vars

\* ------------------------------------------------------ derived quantities
\* The sequence of entries a complete os.walk(top) loop takes: the files of a
\* listed directory first, then each real subdirectory's, in listing order.
RECURSIVE WalkFrom(_, _)
RECURSIVE WalkAll(_, _)
WalkFrom(kinds, d) ==
    IF kinds[d] = "nolist" THEN <<>>
    ELSE Ascending(NonDirs(d)) \o WalkAll(kinds, Ascending(Descend(kinds, d)))
WalkAll(kinds, ds) ==
    IF ds = <<>> THEN <<>>
    ELSE WalkFrom(kinds, Head(ds)) \o WalkAll(kinds, Tail(ds))

WalkOrder == WalkFrom(dirKind, Root)

\* directory d is entered by the walk: it and every directory above it is a
\* real, listable directory
RECURSIVE Reachable(_)
Reachable(d) ==
    /\ dirKind[d] = "dir"
    /\ d # Root => Reachable(Parent(d))

Range(s) == { s[i] : i \in 1..Len(s) }
IsPrefix(s, t) == Len(s) <= Len(t) /\ \A i \in 1..Len(s) : s[i] = t[i]

\* the data rows of the report (header excluded)
DataRows == IF report = <<>> THEN <<>> ELSE Tail(report)
RowsOf(f) == { i \in 1..Len(DataRows) : DataRows[i][1] = PathOf(f) }
RowsWith(status) == { i \in 1..Len(DataRows) : DataRows[i][4] = status }
RowPaths == [i \in 1..Len(DataRows) |-> DataRows[i][1]]

SizeFailed(f) == fate[f] \in {"gone_at_size", "denied_at_size"}
ReadFailed(f) == fate[f] \in {"gone_at_open", "denied_at_open", "failed_at_read"}
Raised(f) == fate[f] = "raised"
Failed(f) == SizeFailed(f) \/ ReadFailed(f) \/ Raised(f)
Vanished(f) == fate[f] \in {"gone_at_size", "gone_at_open"}

Digests == { HexDigest(n) : n \in 0..MaxChunks }
Reasons == {ENOENT, EACCES, ENOSPC, Unexpected}

\* between two files, or after the last
BetweenFiles == pc \in {"walk", "done"}

\* a step of the scan other than an interrupt
ScanStep == WalkNext \/ GetSize \/ HashOpen \/ HashRead \/ Record \/ Except \/ Finish

\* ------------------------------------------------------------------ claims

\* C1 (as stated): when the scan completes on a tree in which no access fails
\* (every directory listable and real, no failure raised by the environment),
\* the number of data rows equals the number of regular files of the tree,
\* and so does file_count + error_count.
C1_RowsEqualRegularFiles ==
    (/\ pc = "done"
     /\ faults = 0
     /\ \A d \in Dirs : dirKind[d] = "dir")
    => /\ Len(DataRows) = Cardinality({ f \in Files : fileKind[f] = "regular" })
       /\ file_count + error_count
            = Cardinality({ f \in Files : fileKind[f] = "regular" })

\* C2: while no operation on the CSV file has failed, a per-file failure (size
\* query, open, read, or any other exception) never ends the run: the scan can
\* always take its next step, between files every entry taken so far has
\* exactly one row (an error row if it failed) and error_count counts each
\* failed entry once, and a run that ends uninterrupted has taken every entry
\* of the walk, printed the summary and exits with status 0.
C2_PerFileFailureIsolated ==
    sinkFailed = 0 =>
        /\ pc # "fatal"
        /\ pc \in {"walk", "hash", "read", "classify", "except"} => ENABLED ScanStep
        /\ BetweenFiles =>
              /\ \A f \in Range(yielded) :
                    /\ Cardinality(RowsOf(f)) = 1
                    /\ Failed(f) <=> \E i \in RowsOf(f) : DataRows[i][4] # "Success"
              /\ Len(DataRows) = Len(yielded)
              /\ error_count = Cardinality({ f \in Range(yielded) : Failed(f) })
        /\ pc = "done" =>
              /\ yielded = WalkOrder
              /\ summary = <<file_count, error_count>>
              /\ exitcode = 0

\* C2 witness: a completed run in which two entries failed in different ways
\* and an entry taken after them was hashed and recorded.
C2_Witness ==
    /\ pc = "done"
    /\ exitcode = 0
    /\ sinkFailed = 0
    /\ Len(yielded) = 3
    /\ SizeFailed(yielded[1])
    /\ Raised(yielded[2])
    /\ fate[yielded[3]] = "read"
    /\ error_count = 2
    /\ Len(DataRows) = 3

\* C3 (as stated): a failure of the CSV file is fatal: once an open or a write
\* of it has failed, the scan does not go on to another file and never
\* completes with a summary, and the failure is not counted as a file error.
C3_SinkFailureIsFatal ==
    sinkFailed > 0 =>
        /\ pc \in {"except", "fatal", "interrupted"}
        /\ summary = <<>>
        /\ error_count = Cardinality({ f \in Range(yielded) : Failed(f) })
        /\ \A i \in 1..Len(DataRows) : DataRows[i][4] # "Error - " \o ENOSPC

\* C4: an interrupt ends the run with a non-zero exit status and no summary,
\* and leaves the report as it was: nothing if the CSV file was not open yet,
\* otherwise the header followed by one row for each entry of a prefix of
\* the walk.
C4_InterruptKeepsPartialReport ==
    [][pc' = "interrupted" =>
          /\ report' = report
          /\ summary' = <<>>
          /\ exitcode' = 1
          /\ IF pc = "open" THEN report' = <<>>
             ELSE /\ report'[1] = Header
                  /\ IsPrefix(RowPaths', [i \in 1..Len(WalkOrder) |-> PathOf(WalkOrder[i])])
       ]_vars

\* C4 witness: interrupted while the second entry is hashed, one row written.
C4_Witness ==
    /\ pc = "interrupted"
    /\ Len(DataRows) = 1
    /\ Len(yielded) = 2
    /\ fed = 1
    /\ exitcode = 1

\* the scenario of C5: the scan completed, no CSV operation failed, exactly one
\* entry vanished between its discovery and its hashing, all others were read
C5_Scenario ==
    /\ pc = "done"
    /\ sinkFailed = 0
    /\ Cardinality({ f \in Range(yielded) : Vanished(f) }) = 1
    /\ \A f \in Range(yielded) : Vanished(f) \/ fate[f] = "read"

\* C5 (as stated): in that scenario the report has N-1 Success rows and one
\* row with status 'Error - Could not read file', and the summary shows N-1
\* files processed and 1 error.
C5_VanishedIsReadError ==
    C5_Scenario =>
        /\ Cardinality(RowsWith("Success")) = Len(yielded) - 1
        /\ Cardinality(RowsWith("Error - Could not read file")) = 1
        /\ summary = <<Len(yielded) - 1, 1>>

\* C5 (amended): in that scenario the report has N-1 Success rows and one
\* error row, the vanished entry's: digest N/A, and size present with status
\* 'Error - Could not read file' if it vanished after the size query, size
\* N/A with status 'Error - <reason>' if it vanished before; the summary
\* shows N-1 files processed and 1 error.
C5_VanishedIsOneErrorRow ==
    C5_Scenario =>
        /\ Cardinality(RowsWith("Success")) = Len(yielded) - 1
        /\ Len(DataRows) = Len(yielded)
        /\ \A f \in Range(yielded) : Vanished(f) =>
              \E i \in 1..Len(DataRows) :
                 DataRows[i] =
                    IF fate[f] = "gone_at_open"
                    THEN <<PathOf(f), "N/A", SizeStr(f, fileKind[f]),
                           "Error - Could not read file">>
                    ELSE <<PathOf(f), "N/A", "N/A",
                           "Error - [Errno 2] No such file or directory">>
        /\ summary = <<Len(yielded) - 1, 1>>

\* C5 witness: every file of the tree was taken and one of them vanished
\* before its size was queried.
C5_Witness ==
    /\ C5_Scenario
    /\ Len(yielded) = NumFiles
    /\ \E f \in Files : fate[f] = "gone_at_size"

\* C6: when open() or a chunk read fails, calculate_md5 returns None, never a
\* digest; and if the row of line 82 is then written, it is the entry's path,
\* 'N/A', its size and 'Error - Could not read file', error_count grows by one
\* and file_count stays.
C6_ReadFailureGivesNoDigest ==
    /\ [](pc = "classify" /\ ReadFailed(file_path) => md5_hash = "None")
    /\ [][(pc = "classify" /\ ReadFailed(file_path) /\ pc' = "walk") =>
             /\ report' = Append(report, <<PathOf(file_path), "N/A",
                                           SizeStr(file_path, fileKind[file_path]),
                                           "Error - Could not read file">>)
             /\ error_count' = error_count + 1
             /\ file_count' = file_count
         ]_vars

\* C6 witness: a read failed after a chunk was fed, and the row was written.
C6_Witness ==
    /\ pc = "walk"
    /\ file_path \in Files
    /\ fate[file_path] = "failed_at_read"
    /\ fed >= 1
    /\ DataRows # <<>>
    /\ DataRows[Len(DataRows)][4] = "Error - Could not read file"
    /\ DataRows[Len(DataRows)][2] = "N/A"
    /\ error_count = 1

\* C7: a directory that cannot be listed does not stop the walk: listing a
\* directory changes neither the counters nor the report, no row carries a
\* directory's path, and a completed run without CSV failures has exactly one
\* row for every entry of every directory the walk can enter, and none for
\* the others.
C7_UnlistableDirectorySkipped ==
    /\ [](/\ \A i \in 1..Len(DataRows) : \A d \in Dirs : DataRows[i][1] # DirPath(d)
          /\ (pc = "walk" => ENABLED (WalkNext \/ GetSize \/ Finish))
          /\ (pc = "done" /\ sinkFailed = 0) =>
                \A f \in Files :
                   Cardinality(RowsOf(f)) = IF Reachable(FileDir(f)) THEN 1 ELSE 0)
    /\ [][(pc = "walk" /\ files = <<>> /\ pc' = "walk") =>
             /\ error_count' = error_count
             /\ file_count' = file_count
             /\ report' = report
         ]_vars

\* C7 witness: directory 2 could not be listed, its sibling 3 could; the run
\* completed with rows for the files of the root and of 3, none for 2's.
C7_Witness ==
    /\ pc = "done"
    /\ dirKind[Root] = "dir"
    /\ dirKind[2] = "nolist"
    /\ dirKind[3] = "dir"
    /\ RowsOf(2) = {}
    /\ RowsOf(3) # {}
    /\ RowsOf(1) # {}
    /\ error_count = 0

\* C8: every data row has one status, 'Success', 'Error - Could not read file'
\* or 'Error - <reason>'; its digest field is a digest exactly if the status
\* is 'Success', and is 'N/A' otherwise.
C8_DigestIffSuccess ==
    \A i \in 1..Len(DataRows) :
        /\ Len(DataRows[i]) = 4
        /\ DataRows[i][4] \in {"Success", "Error - Could not read file"}
                                \cup { "Error - " \o r : r \in Reasons }
        /\ DataRows[i][2] \in Digests <=> DataRows[i][4] = "Success"
        /\ DataRows[i][4] # "Success" => DataRows[i][2] = "N/A"

\* C8 witness: a report with a Success row, a read-error row and a row of the
\* except clause.
C8_Witness ==
    /\ Len(DataRows) = 3
    /\ RowsWith("Success") # {}
    /\ RowsWith("Error - Could not read file") # {}
    /\ RowsWith("Error - [Errno 13] Permission denied") # {}

\* C9: when the size query fails, calculate_md5 is never called on that entry;
\* and if the row of line 87 is then written, it is the path, 'N/A', 'N/A' and
\* 'Error - <reason>', error_count grows by one, file_count stays, and the scan
\* is back at the loop for the next entry.
C9_SizeFailureSkipsHashing ==
    /\ [](\A f \in Files : SizeFailed(f) => f \notin hashed)
    /\ [](pc \in {"hash", "read", "classify"} => ~SizeFailed(file_path))
    /\ [][(pc = "except" /\ SizeFailed(file_path) /\ pc' \notin {"fatal", "interrupted"}) =>
             /\ report' = Append(report,
                    <<PathOf(file_path), "N/A", "N/A",
                      "Error - " \o (IF fate[file_path] = "gone_at_size"
                                     THEN ENOENT ELSE EACCES)>>)
             /\ error_count' = error_count + 1
             /\ file_count' = file_count
             /\ pc' = "walk"
         ]_vars

\* C9 witness: the size query of the first entry failed, its error row was
\* written, and the scan went on to hash the next entry.
C9_Witness ==
    /\ Len(yielded) = 2
    /\ SizeFailed(yielded[1])
    /\ yielded[1] \notin hashed
    /\ yielded[2] \in hashed
    /\ error_count = 1
    /\ file_count = 0
    /\ DataRows # <<>>
    /\ DataRows[1][3] = "N/A"

\* C10 (as stated): the entries the scan takes are exactly the regular files
\* in directories the walk can enter, each once, and no entry that is not a
\* regular file is taken.
C10_OnlyRegularFilesProcessed ==
    /\ \A i \in 1..Len(yielded) : fileKind[yielded[i]] = "regular"
    /\ \A i, j \in 1..Len(yielded) : yielded[i] = yielded[j] => i = j
    /\ \A f \in Range(yielded) : Reachable(FileDir(f))
    /\ pc = "done" =>
          Range(yielded) = { f \in Files : fileKind[f] = "regular" /\ Reachable(FileDir(f)) }

====
